---- MODULE Spec2Model ----
(***************************************************************************)
(* Db2ConnectionPoolManager (src/ibmdb-pool-manager.js): the readiness     *)
(* flags, the pool-first / direct-fallback acquisition pipeline, and the   *)
(* drain-and-reinitialise restart, on Node's single-threaded event loop:   *)
(* promise continuations run from a FIFO microtask queue, I/O callbacks    *)
(* (pool.open, conn.query, conn.close, ibmDb.open) only when it is empty.  *)
(***************************************************************************)
EXTENDS Integers, Sequences, FiniteSets, TLC

\* Number of getConnection() invocations that may be in flight together.
MaxCalls == 2
\* Idle connections a successful pool.init leaves (stands for maxPoolConnections).
MaxIdle == 2

Callers == 1..MaxCalls

VARIABLES
  isInitializing,   \* this.isInitializing
  isAvailable,      \* this.isAvailable
  pool,             \* TRUE iff this.pool holds a primitive instance
  poolCreated,      \* how many times new ibmDb.Pool() has run
  poolResult,       \* TRUE iff the last pool.init returned true (line 41)
  usedPool,         \* this.pool.usedPool[connString]
  availablePool,    \* this.pool.availablePool[connString]
  calls,            \* per caller: the state of its current getConnection()
  mq,               \* the microtask queue (promise continuations), FIFO
  cycleDrains,      \* closePoolConnections() runs since Initializing was entered
  drainAll          \* the last drain attempted realClose on every idle connection

vars == <<isInitializing, isAvailable, pool, poolCreated, poolResult, usedPool,
          availablePool, calls, mq, cycleDrains, drainAll>>

----------------------------------------------------------------------------
\* JavaScript values of the primitive's per-target sets: a missing key, null,
\* or an array (of which only the length matters here).
Undefined == [kind |-> "undefined", len |-> 0]
NullVal == [kind |-> "null", len |-> 0]
List(n) == [kind |-> "array", len |-> n]
IsArray(v) == v.kind = "array"

\* Probe results: undefined, or an array of rows, each row the value of column "1".
NoResult == [defined |-> FALSE, rows |-> <<>>]
Rows(r) == [defined |-> TRUE, rows |-> r]
QueryResults == {NoResult, Rows(<<>>), Rows(<<1>>), Rows(<<2>>), Rows(<<1, 1>>)}

\* What the query callback can be handed: an error comes without a result.
QueryOutcomes ==
  {o \in [error : BOOLEAN, result : QueryResults] :
     o.error => o.result = NoResult}

\* conn.close(cb) either throws or calls cb later.
CloseModes == {"throws", "async"}

Min(a, b) == IF a < b THEN a ELSE b

----------------------------------------------------------------------------
\* Mutant of ProbeIsLive: the length compared with 0 instead of 1.
ProbeIsLive_Empty(result) == result.defined /\ Len(result.rows) = 0

\* Line 204: result && result.length === 1
ProbeIsLive(result) == result.defined /\ Len(result.rows) = 1

\* Mutant of GateCheck: the isAvailable test (lines 173-175) left out.
GateCheck_NoAvailable(initializing, available) ==
  IF initializing THEN "gateInitializing" ELSE "ok"

\* Lines 169-175: the gate of getPoolConnection; "ok" lets pool.open be called.
GateCheck(initializing, available) ==
  IF initializing THEN "gateInitializing"
  ELSE IF ~available THEN "gateUnavailable"
  ELSE "ok"

\* Lines 100-106.
hasActiveConnections(p, used) ==
  IF p /\ IsArray(used) THEN used.len # 0 ELSE FALSE

\* Mutant of getConnectionCounts: the idle set's length read outside the try.
getConnectionCounts_NoCatch(p, used, avail) ==
  IF p /\ IsArray(used)
    THEN IF IsArray(avail)
           THEN [raised |-> FALSE, used |-> used.len, available |-> avail.len,
                 total |-> used.len + avail.len]
           ELSE [raised |-> TRUE, used |-> 0, available |-> 0, total |-> 0]
    ELSE [raised |-> FALSE, used |-> 0, available |-> 0, total |-> 0]

\* Lines 108-124. `raised` tells whether the call throws.
getConnectionCounts(p, used, avail) ==
  IF p /\ IsArray(used) /\ IsArray(avail)
    THEN [raised |-> FALSE, used |-> used.len, available |-> avail.len,
          total |-> used.len + avail.len]
    ELSE [raised |-> FALSE, used |-> 0, available |-> 0, total |-> 0]

\* Mutant of ShouldRestart: the hasActiveConnections() test left out.
ShouldRestart_IgnoreActive(initializing, available, active) ==
  ~available \/ ~initializing

\* Lines 144-147: the restart decision of the fallback path.
ShouldRestart(initializing, available, active) ==
  ~available \/ (~initializing /\ ~active)

\* Mutant of FallbackSettle: reject(err) for reject(error) at line 156.
FallbackSettle_PoolErr(poolErr, directErr) ==
  IF directErr THEN poolErr ELSE "directConn"

\* Lines 151-157: what getConnection() settles with after the direct attempt.
FallbackSettle(poolErr, directErr) ==
  IF directErr THEN "directError" ELSE "directConn"

\* Mutant of DirectSettles: the else branch (lines 223-225) left out.
DirectSettles_OnlyOnError(err) == err

\* Lines 221-225: both branches of ibmDb.open's callback settle the promise.
DirectSettles(err) == TRUE

----------------------------------------------------------------------------
\* The pool primitive's init (called at line 41): it reports success or an
\* error; on success the idle set holds MaxIdle connections and the in-use set
\* exists, on failure the sets are left alone or the idle set is left empty.
PoolInitOutcomes(used, avail) ==
  {[ok |-> TRUE, used |-> IF IsArray(used) THEN used ELSE List(0),
    avail |-> List(MaxIdle)]}
  \cup {[ok |-> FALSE, used |-> used, avail |-> a] : a \in {avail, List(0)}}

\* Mutant of initializePool: returning from the error branch (lines 43-45)
\* before line 50 resets isInitializing.
initializePool_EarlyReturn(p, created, out) ==
  [isInitializing |-> ~out.ok,
   isAvailable |-> out.ok,
   pool |-> TRUE,
   poolCreated |-> IF p THEN created ELSE created + 1,
   poolResult |-> out.ok,
   usedPool |-> out.used,
   availablePool |-> out.avail]

\* Mutant of initializePool: the `if (!this.pool)` test of line 36 left out,
\* a new primitive being constructed on every run.
initializePool_NoPoolTest(p, created, out) ==
  [isInitializing |-> FALSE,
   isAvailable |-> out.ok,
   pool |-> TRUE,
   poolCreated |-> created + 1,
   poolResult |-> out.ok,
   usedPool |-> out.used,
   availablePool |-> out.avail]

\* Lines 32-51, as a function of the fields before and init's outcome.
initializePool(p, created, out) ==
  [isInitializing |-> FALSE,
   isAvailable |-> out.ok,
   pool |-> TRUE,
   poolCreated |-> IF p THEN created ELSE created + 1,
   poolResult |-> out.ok,
   usedPool |-> out.used,
   availablePool |-> out.avail]

\* A caller with no getConnection() in progress. Per caller:
\*   stage          where its getConnection() stands (idle, awaitPool,
\*                  awaitDirect, done)
\*   poolP          getPoolConnection's promise: pending, resolved, or the
\*                  error it was rejected with (dropped with the closure at done)
\*   openPending, queryPending, closePending, directPending
\*                  callbacks handed to the primitive / provider, not yet called
\*   held           its pool connection is in the primitive's in-use set
\*   directErr      ibmDb.open reported an error
\*   result         what getConnection() settled with
\*   openOut, closeCalls, restarts
\*                  what pool.open reported, the conn.close calls made on its
\*                  pool connection, the restart() calls it made
\*   qFired, qErr, qRes
\*                  the probe's outcome, kept until getConnection() resumes
IdleCall ==
  [stage |-> "idle", poolP |-> "none", openPending |-> FALSE,
   queryPending |-> FALSE, closePending |-> {}, directPending |-> FALSE,
   held |-> FALSE, directErr |-> FALSE, result |-> "none",
   openOut |-> "none", closeCalls |-> 0, restarts |-> 0,
   qFired |-> FALSE, qErr |-> FALSE, qRes |-> NoResult]

\* The probe's outcome is forgotten once getConnection() has resumed.
ForgetProbe(c) == [c EXCEPT !.qFired = FALSE, !.qErr = FALSE, !.qRes = NoResult]

\* Lines 5-16: the field initialisers, then the constructor's initializePool(),
\* with no getConnection() started yet by any caller of the set S.
InitWith(S) ==
  \E out \in PoolInitOutcomes(Undefined, Undefined) :
    LET s == initializePool(FALSE, 0, out) IN
      /\ isInitializing = s.isInitializing
      /\ isAvailable = s.isAvailable
      /\ pool = s.pool
      /\ poolCreated = s.poolCreated
      /\ poolResult = s.poolResult
      /\ usedPool = s.usedPool
      /\ availablePool = s.availablePool
      /\ calls = [i \in S |-> IdleCall]
      /\ mq = <<>>
      /\ cycleDrains = 0
      /\ drainAll = TRUE

Init == InitWith(Callers)

----------------------------------------------------------------------------
\* resolve/reject of getPoolConnection's promise: only the first call settles it.
SettlePool(c, v) == IF c.poolP = "pending" THEN [c EXCEPT !.poolP = v] ELSE c

\* `await this.getPoolConnection()` (line 135): the continuation of caller i is
\* queued as a microtask when the promise settles.
AfterSettle(q, before, after, i) ==
  IF before.poolP = "pending" /\ after.poolP # "pending"
    THEN Append(q, [kind |-> "resumePool", id |-> i])
    ELSE q

\* A pooled connection taken out of the idle set into the in-use set, and back.
TakeUsed(used) == List((IF IsArray(used) THEN used.len ELSE 0) + 1)
TakeAvail(avail) ==
  IF IsArray(avail) /\ avail.len > 0 THEN List(avail.len - 1) ELSE avail
GiveUsed(used) ==
  IF IsArray(used) /\ used.len > 0 THEN List(used.len - 1) ELSE used
GiveAvail(avail) ==
  IF IsArray(avail) THEN List(Min(avail.len + 1, MaxIdle)) ELSE avail

\* conn.close(cb) at line 181 or 194, where cb rejects with e. The connection
\* leaves the in-use set when the close completes.
CloseConn(c, e, mode) ==
  LET c1 == [c EXCEPT !.closeCalls = @ + 1] IN
    IF mode = "throws"
      THEN SettlePool(c1, "closeError")
      ELSE [c1 EXCEPT !.closePending = @ \cup {e}]

\* conn.query(...) at line 190.
IssueQuery(c) == [c EXCEPT !.queryPending = TRUE]

\* Lines 131-135 and 166-177: getConnection() up to its first await, that is
\* the gate and, past it, the call of pool.open. A caller starts its next
\* invocation once the pool connection of the previous one has left the in-use
\* set and the callbacks still owed on it have been called.
GetConnection(i) ==
  LET c == calls[i]
      gate == GateCheck(isInitializing, isAvailable)
      c1 == [IdleCall EXCEPT
               !.stage = "awaitPool",
               !.poolP = IF gate = "ok" THEN "pending" ELSE gate,
               !.openPending = (gate = "ok")]
  IN
    /\ c.stage \in {"idle", "done"}
    /\ ~c.held /\ ~c.queryPending /\ c.closePending = {}
    /\ calls' = [calls EXCEPT ![i] = c1]
    /\ mq' = AfterSettle(mq, [c1 EXCEPT !.poolP = "pending"], c1, i)
    /\ UNCHANGED <<isInitializing, isAvailable, pool, poolCreated, poolResult, usedPool,
                   availablePool, cycleDrains, drainAll>>

\* Lines 177-190: the callback of pool.open, with (err, conn) as handed over.
\* With err and no connection object, conn.close throws a TypeError that is
\* caught (line 184) and conn.query a second one that is not.
PoolOpenCallback(i, err, hasConn, mode) ==
  LET c == calls[i]
      c0 == [c EXCEPT !.openPending = FALSE,
                      !.openOut = IF err THEN "error" ELSE "ok",
                      !.held = ~err]
      c1 == IF ~err THEN IssueQuery(c0)
            ELSE IF ~hasConn THEN SettlePool(c0, "closeError")
            ELSE IssueQuery(CloseConn(c0, "openError", mode))
  IN
    /\ mq = <<>>
    /\ c.openPending
    /\ ~err => hasConn
    /\ ~(err /\ hasConn) => mode = "async"
    /\ calls' = [calls EXCEPT ![i] = c1]
    /\ mq' = AfterSettle(mq, c, c1, i)
    /\ usedPool' = IF err THEN usedPool ELSE TakeUsed(usedPool)
    /\ availablePool' = IF err THEN availablePool ELSE TakeAvail(availablePool)
    /\ UNCHANGED <<isInitializing, isAvailable, pool, poolCreated, poolResult,
                   cycleDrains, drainAll>>

\* Lines 190-209: the callback of the probe query, with (error, result).
QueryCallback(i, o, mode) ==
  LET c == calls[i]
      c0 == IF c.poolP = "pending"
              THEN [c EXCEPT !.queryPending = FALSE, !.qFired = TRUE,
                      !.qErr = o.error, !.qRes = o.result]
              ELSE [c EXCEPT !.queryPending = FALSE]
      c1 == IF o.error THEN CloseConn(c0, "queryError", mode) ELSE c0
      c2 == SettlePool(c1, IF ProbeIsLive(o.result) THEN "resolved"
                           ELSE "testFailed")
      given == c.held /\ ~c2.held
  IN
    /\ mq = <<>>
    /\ c.queryPending
    /\ ~o.error => mode = "async"
    /\ calls' = [calls EXCEPT ![i] = c2]
    /\ mq' = AfterSettle(mq, c, c2, i)
    /\ usedPool' = IF given THEN GiveUsed(usedPool) ELSE usedPool
    /\ availablePool' = IF given THEN GiveAvail(availablePool) ELSE availablePool
    /\ UNCHANGED <<isInitializing, isAvailable, pool, poolCreated, poolResult,
                   cycleDrains, drainAll>>

\* Lines 181-183 and 194-196: the callback of a conn.close, rejecting with e.
CloseCallback(i, e) ==
  LET c == calls[i]
      c1 == SettlePool([c EXCEPT !.closePending = @ \ {e}, !.held = FALSE], e)
  IN
    /\ mq = <<>>
    /\ e \in c.closePending
    /\ calls' = [calls EXCEPT ![i] = c1]
    /\ mq' = AfterSettle(mq, c, c1, i)
    /\ usedPool' = IF c.held THEN GiveUsed(usedPool) ELSE usedPool
    /\ availablePool' = IF c.held THEN GiveAvail(availablePool) ELSE availablePool
    /\ UNCHANGED <<isInitializing, isAvailable, pool, poolCreated, poolResult,
                   cycleDrains, drainAll>>

\* Lines 56-78: the drain. realClose is attempted on the idle connections in
\* turn; `complete` is FALSE when one of them throws before the last, which
\* the catch at line 73 turns into a log line, ending the loop.
closePoolConnections(p, avail, complete) ==
  IF p /\ IsArray(avail) /\ avail.len > 1 THEN complete ELSE TRUE

\* Mutant of handlePoolRestart: a drain whose promise rejects when a close
\* throws, so that the `.catch` runs in place of the `.then` callback.
handlePoolRestart_DrainRejects(q, complete) ==
  [isInitializing |-> TRUE,
   cycleDrains |-> cycleDrains + 1,
   drainAll |-> closePoolConnections(pool, availablePool, complete),
   mq |-> IF closePoolConnections(pool, availablePool, complete)
            THEN Append(q, [kind |-> "restartThen", id |-> 0])
            ELSE q]

\* Mutant of handlePoolRestart: line 84 left out, the flag being set only by
\* initializePool() in the continuation.
handlePoolRestart_NoFlag(q, complete) ==
  [isInitializing |-> isInitializing,
   cycleDrains |-> cycleDrains + 1,
   drainAll |-> closePoolConnections(pool, availablePool, complete),
   mq |-> Append(q, [kind |-> "restartThen", id |-> 0])]

\* Lines 83-95 up to the continuation: the flag, the drain, and the `.then`
\* callback queued behind the microtasks already waiting.
handlePoolRestart(q, complete) ==
  [isInitializing |-> TRUE,
   cycleDrains |-> cycleDrains + 1,
   drainAll |-> closePoolConnections(pool, availablePool, complete),
   mq |-> Append(q, [kind |-> "restartThen", id |-> 0])]

\* Lines 136-151: getConnection() resumed after the pool attempt: it resolves
\* with the pool connection, or takes the restart decision, triggers the
\* restart and calls the direct provider's open.
ResumePool(i, complete) ==
  LET c == calls[i]
      restart == ShouldRestart(isInitializing, isAvailable,
                               hasActiveConnections(pool, usedPool))
      r == handlePoolRestart(Tail(mq), complete)
  IN
    /\ mq # <<>>
    /\ Head(mq) = [kind |-> "resumePool", id |-> i]
    /\ IF c.poolP = "resolved"
         THEN /\ complete
              /\ calls' = [calls EXCEPT ![i] = 
                          [ForgetProbe(c) EXCEPT !.stage = "done",
                                                 !.poolP = "none",
                                                 !.result = "poolConn"]]
              /\ mq' = Tail(mq)
              /\ UNCHANGED <<isInitializing, cycleDrains, drainAll>>
         ELSE /\ calls' = [calls EXCEPT ![i] =
                             [ForgetProbe(c) EXCEPT
                                       !.stage = "awaitDirect",
                                       !.restarts = IF restart THEN 1 ELSE 0,
                                       !.directPending = TRUE]]
              /\ IF restart
                   THEN /\ isInitializing' = r.isInitializing
                        /\ cycleDrains' = r.cycleDrains
                        /\ drainAll' = r.drainAll
                        /\ mq' = r.mq
                        /\ (complete \/ r.drainAll = FALSE)
                   ELSE /\ complete
                        /\ mq' = Tail(mq)
                        /\ UNCHANGED <<isInitializing, cycleDrains, drainAll>>
    /\ UNCHANGED <<isAvailable, pool, poolCreated, poolResult, usedPool,
                   availablePool>>

\* Lines 87-94: the continuation of the drain. Without a pool instance line 88
\* throws, the catch logs it and initializePool() is not reached.
RestartContinuation(out) ==
  LET s == initializePool(pool, poolCreated, out) IN
    /\ mq # <<>>
    /\ Head(mq).kind = "restartThen"
    /\ mq' = Tail(mq)
    /\ IF pool
         THEN /\ out \in PoolInitOutcomes(usedPool, NullVal)
              /\ isInitializing' = s.isInitializing
              /\ isAvailable' = s.isAvailable
              /\ pool' = s.pool
              /\ poolCreated' = s.poolCreated
              /\ poolResult' = s.poolResult
              /\ usedPool' = s.usedPool
              /\ availablePool' = s.availablePool
              /\ cycleDrains' = 0
         ELSE /\ out = [ok |-> FALSE, used |-> usedPool, avail |-> availablePool]
              /\ UNCHANGED <<isInitializing, isAvailable, pool, poolCreated, poolResult,
                             usedPool, availablePool, cycleDrains>>
    /\ UNCHANGED <<calls, drainAll>>

\* Lines 220-226: the callback of ibmDb.open, settling getDirectConnection.
DirectOpenCallback(i, err) ==
  LET c == calls[i] IN
    /\ mq = <<>>
    /\ c.directPending
    /\ calls' = [calls EXCEPT ![i] = [c EXCEPT !.directPending = FALSE,
                                               !.directErr = err]]
    /\ mq' = IF DirectSettles(err)
               THEN Append(mq, [kind |-> "resumeDirect", id |-> i])
               ELSE mq
    /\ UNCHANGED <<isInitializing, isAvailable, pool, poolCreated, poolResult, usedPool,
                   availablePool, cycleDrains, drainAll>>

\* Lines 151-157: getConnection() resumed after the direct attempt.
ResumeDirect(i) ==
  LET c == calls[i] IN
    /\ mq # <<>>
    /\ Head(mq) = [kind |-> "resumeDirect", id |-> i]
    /\ mq' = Tail(mq)
    /\ calls' = [calls EXCEPT ![i] =
                   [c EXCEPT !.stage = "done", !.poolP = "none",
                             !.result = FallbackSettle(c.poolP, c.directErr)]]
    /\ UNCHANGED <<isInitializing, isAvailable, pool, poolCreated, poolResult, usedPool,
                   availablePool, cycleDrains, drainAll>>

\* The application closes the pool connection getConnection() resolved with;
\* the primitive moves it from the in-use set back to the idle set.
ReleaseConnection(i) ==
  LET c == calls[i] IN
    /\ c.stage = "done"
    /\ c.result = "poolConn"
    /\ c.held
    /\ calls' = [calls EXCEPT ![i] = [c EXCEPT !.held = FALSE]]
    /\ usedPool' = GiveUsed(usedPool)
    /\ availablePool' = GiveAvail(availablePool)
    /\ UNCHANGED <<isInitializing, isAvailable, pool, poolCreated, poolResult, mq,
                   cycleDrains, drainAll>>

Next ==
  \/ \E i \in Callers : GetConnection(i)
  \/ \E i \in Callers, err \in BOOLEAN, hasConn \in BOOLEAN, mode \in CloseModes :
       PoolOpenCallback(i, err, hasConn, mode)
  \/ \E i \in Callers, o \in QueryOutcomes, mode \in CloseModes :
       QueryCallback(i, o, mode)
  \/ \E i \in Callers, e \in {"openError", "queryError"} : CloseCallback(i, e)
  \/ \E i \in Callers, complete \in BOOLEAN : ResumePool(i, complete)
  \/ \E out \in PoolInitOutcomes(usedPool, NullVal)
            \cup {[ok |-> FALSE, used |-> usedPool, avail |-> availablePool]} :
       RestartContinuation(out)
  \/ \E i \in Callers, err \in BOOLEAN : DirectOpenCallback(i, err)
  \/ \E i \in Callers : ResumeDirect(i)
  \/ \E i \in Callers : ReleaseConnection(i)

Spec == Init /\ [][Next]_vars

\* One getConnection() more in flight than in Spec, which is what it takes for
\* an invocation to start between the continuations of two overlapping
\* restarts. To keep the state space in reach the primitive's answers are
\* narrowed: pool.open always hands a connection, conn.close never throws,
\* the probe answers one row or an error, no realClose throws in a drain and
\* the direct provider succeeds. Every behaviour of OverlapSpec is one of the
\* program.
OverlapCallers == 1..(MaxCalls + 1)

OverlapNext ==
  \/ \E i \in OverlapCallers : GetConnection(i)
  \/ \E i \in OverlapCallers, err \in BOOLEAN :
       PoolOpenCallback(i, err, TRUE, "async")
  \/ \E i \in OverlapCallers,
        o \in {[error |-> FALSE, result |-> Rows(<<1>>)],
               [error |-> TRUE, result |-> NoResult]} :
       QueryCallback(i, o, "async")
  \/ \E i \in OverlapCallers, e \in {"openError", "queryError"} :
       CloseCallback(i, e)
  \/ \E i \in OverlapCallers : ResumePool(i, TRUE)
  \/ \E out \in PoolInitOutcomes(usedPool, NullVal) : RestartContinuation(out)
  \/ \E i \in OverlapCallers : DirectOpenCallback(i, FALSE)
  \/ \E i \in OverlapCallers : ResumeDirect(i)
  \/ \E i \in OverlapCallers : ReleaseConnection(i)

OverlapSpec == InitWith(OverlapCallers) /\ [][OverlapNext]_vars

\* The microtask at the head of the queue.
Microtask ==
  \/ \E i \in Callers, complete \in BOOLEAN : ResumePool(i, complete)
  \/ \E out \in PoolInitOutcomes(usedPool, NullVal)
            \cup {[ok |-> FALSE, used |-> usedPool, avail |-> availablePool]} :
       RestartContinuation(out)
  \/ \E i \in Callers : ResumeDirect(i)

\* The callbacks the primitive and the direct provider owe caller i.
Callback(i) ==
  \/ \E err \in BOOLEAN, hasConn \in BOOLEAN, mode \in CloseModes :
       PoolOpenCallback(i, err, hasConn, mode)
  \/ \E o \in QueryOutcomes, mode \in CloseModes : QueryCallback(i, o, mode)
  \/ \E e \in {"openError", "queryError"} : CloseCallback(i, e)
  \/ \E err \in BOOLEAN : DirectOpenCallback(i, err)

\* The event loop runs every queued microtask; the primitive and the direct
\* provider eventually call every callback they were given, which the loop
\* runs once the microtask queue is empty.
FairSpec ==
  /\ Init /\ [][Next]_vars
  /\ WF_vars(Microtask)
  /\ \A i \in Callers : SF_vars(Callback(i))

----------------------------------------------------------------------------
\* Steps of caller i, read off two successive states.
Starts(i) == calls[i].stage \in {"idle", "done"} /\ calls'[i].stage = "awaitPool"
CallsPoolOpen(i) == ~calls[i].openPending /\ calls'[i].openPending
Resumes(i) == calls[i].stage = "awaitPool" /\ calls'[i].stage # "awaitPool"
CallsRestart(i) == Resumes(i) /\ calls'[i].restarts = 1
CallsDirectOpen(i) == ~calls[i].directPending /\ calls'[i].directPending

PoolPathErrors ==
  {"gateInitializing", "gateUnavailable", "openError", "closeError",
   "queryError", "testFailed"}

\* C1: pool.open is called only by a getConnection() whose gate check sees
\* isInitializing false and isAvailable true; a getConnection() that sees
\* Initializing or Unavailable fails its pool attempt with the gate's error
\* and does not call pool.open.
C1_OpenOnlyWhenAvailable ==
  [][\A i \in Callers :
       /\ CallsPoolOpen(i) => (Starts(i) /\ ~isInitializing /\ isAvailable)
       /\ (Starts(i) /\ (isInitializing \/ ~isAvailable)) =>
            /\ ~calls'[i].openPending
            /\ calls'[i].poolP \in {"gateInitializing", "gateUnavailable"}]_vars

\* A caller gated while Initializing, another gated while Unavailable, and
\* neither has a pool.open outstanding.
C1_Witness ==
  \E i, j \in Callers :
    /\ calls[i].poolP = "gateInitializing" /\ ~calls[i].openPending
    /\ calls[j].poolP = "gateUnavailable" /\ ~calls[j].openPending

\* C2: when pool.open hands over a connection without error and the probe
\* on it succeeds, getConnection() resolves with that pool connection, and
\* this call invokes neither the direct provider's open nor restart().
C2_HealthyPoolReturnsPoolConn ==
  [][\A i \in Callers :
       (/\ Resumes(i)
        /\ calls[i].openOut = "ok"
        /\ calls[i].qFired /\ ~calls[i].qErr /\ calls[i].qRes = Rows(<<1>>)) =>
         /\ calls'[i].stage = "done"
         /\ calls'[i].result = "poolConn"
         /\ ~CallsDirectOpen(i)
         /\ ~CallsRestart(i)
         /\ isInitializing' = isInitializing
         /\ cycleDrains' = cycleDrains
         /\ mq' = Tail(mq)]_vars

\* A getConnection() that resolved with a pool connection it still holds,
\* having called neither close nor restart().
C2_Witness ==
  \E i \in Callers :
    /\ calls[i].stage = "done" /\ calls[i].result = "poolConn"
    /\ calls[i].openOut = "ok" /\ calls[i].held
    /\ calls[i].closeCalls = 0 /\ calls[i].restarts = 0
    /\ ~calls[i].directPending

\* C3: when the pool attempt fails and the direct provider's open fails too,
\* getConnection() rejects with the direct provider's error; no pool-path
\* error is ever what getConnection() settles with.
C3_RejectsWithDirectError ==
  \A i \in Callers :
    /\ calls[i].result \notin PoolPathErrors
    /\ calls[i].stage = "done" =>
         /\ calls[i].result \in {"poolConn", "directConn", "directError"}
         /\ calls[i].directErr <=> calls[i].result = "directError"

\* A getConnection() rejected with the direct provider's error.
C3_Witness ==
  \E i \in Callers :
    calls[i].stage = "done" /\ calls[i].directErr /\ calls[i].result = "directError"

\* C4 (as claimed): whenever pool.open reports an error, getConnection() does
\* not resolve with the connection that failed open handed back; it settles
\* with the direct provider's connection or error.
C4_FailedOpenNeverReturned ==
  \A i \in Callers :
    (calls[i].stage = "done" /\ calls[i].openOut = "error") =>
      calls[i].result \in {"directConn", "directError"}

\* C5 (as claimed): the probe classifies a connection live only if the query
\* returned, without error, exactly one row holding the value 1.
C5_LiveOnlyOnExpectedRow ==
  \A i \in Callers :
    (calls[i].qFired /\ calls[i].openOut = "ok" /\ calls[i].poolP = "resolved") =>
      (~calls[i].qErr /\ calls[i].qRes = Rows(<<1>>))

\* C6 (as claimed): a pool connection the probe classifies NOT LIVE (query
\* error, or anything but a single row) has had close called on it exactly
\* once by the time the pool attempt fails, and is not returned.
C6_RejectedConnClosedOnce ==
  \A i \in Callers :
    (/\ calls[i].qFired /\ calls[i].openOut = "ok"
     /\ (calls[i].qErr \/ ~ProbeIsLive(calls[i].qRes))) =>
      /\ calls[i].closeCalls = 1
      /\ calls[i].poolP # "resolved"

\* The restart continuations (lines 87-91) still waiting in the microtask queue.
PendingRestarts == {k \in 1..Len(mq) : mq[k].kind = "restartThen"}

\* C7: every restart() leaves readiness Initializing; the continuations of
\* all restart() calls, overlapping or not, eventually run, and once none is
\* pending isInitializing is false, readiness being Available or Unavailable.
C7_RestartsSettle ==
  /\ [][(\E i \in Callers : CallsRestart(i)) =>
          (isInitializing' /\ PendingRestarts' # {})]_vars
  /\ [](PendingRestarts = {} => (~isInitializing /\ isAvailable \in BOOLEAN))
  /\ (PendingRestarts # {}) ~> (PendingRestarts = {} /\ ~isInitializing)

\* Two restart() calls overlap: the second ran its drain before the first
\* one's continuation reinitialised the pool.
C7_Witness ==
  Cardinality(PendingRestarts) >= 2 /\ cycleDrains >= 2 /\ isInitializing

\* The lookups of lines 102 and 114-115 throw.
UsedLookupFails == ~pool \/ ~IsArray(usedPool)
CountsLookupFails == UsedLookupFails \/ ~IsArray(availablePool)

\* C8: getConnectionCounts() and hasActiveConnections() never raise;
\* the counts are non-negative with total = used + available, all 0 when a
\* lookup fails, and hasActiveConnections() is false when its lookup fails.
C8_CountsNeverRaise ==
  LET r == getConnectionCounts(pool, usedPool, availablePool)
      a == hasActiveConnections(pool, usedPool)
  IN
    /\ ~r.raised
    /\ r.used >= 0 /\ r.available >= 0 /\ r.total >= 0
    /\ r.total = r.used + r.available
    /\ CountsLookupFails => (r.used = 0 /\ r.available = 0 /\ r.total = 0)
    /\ ~CountsLookupFails =>
         (r.used = usedPool.len /\ r.available = availablePool.len)
    /\ a \in BOOLEAN
    /\ UsedLookupFails => ~a
    /\ ~UsedLookupFails => (a <=> usedPool.len > 0)

\* The in-use set exists and holds a connection while a failed
\* reinitialisation has left the idle set null.
C8_Witness ==
  /\ IsArray(usedPool) /\ usedPool.len > 0
  /\ availablePool = NullVal
  /\ ~isInitializing

\* C9: every getConnection() eventually settles, given that the callbacks it
\* waits for are called; it settles whether or not the restart it triggered
\* has reinitialised the pool, and whether or not that succeeded.
C9_GetConnectionSettles ==
  \A i \in Callers : (calls[i].stage # "idle") ~> (calls[i].stage = "done")

\* A getConnection() that triggered a restart has resolved with the direct
\* connection although the reinitialisation failed.
C9_Witness ==
  \E i \in Callers :
    /\ calls[i].stage = "done" /\ calls[i].result = "directConn"
    /\ calls[i].restarts = 1
    /\ ~isInitializing /\ ~isAvailable

\* C10 (as claimed): getConnection() does not call restart() when
\* isInitializing is true at the moment the restart decision is evaluated.
C10_NoRestartWhileInitializing ==
  [][\A i \in Callers : CallsRestart(i) => ~isInitializing]_vars

\* C11: when a pool attempt fails while isAvailable is true and
\* isInitializing false, getConnection() calls restart() exactly when the
\* in-use set for the target is missing or empty; an Available pool with a
\* connection in use is not restarted by a failed acquisition.
C11_RestartIffNoActive ==
  [][\A i \in Callers :
       (/\ Resumes(i)
        /\ calls[i].poolP \in PoolPathErrors
        /\ isAvailable /\ ~isInitializing) =>
         (CallsRestart(i) <=> (UsedLookupFails \/ usedPool.len = 0))]_vars

\* A failed pool attempt fell back without a restart: the pool is Available,
\* not Initializing, and a connection is in use.
C11_Witness ==
  \E i \in Callers :
    /\ calls[i].stage = "awaitDirect" /\ calls[i].directPending
    /\ calls[i].restarts = 0
    /\ isAvailable /\ ~isInitializing /\ PendingRestarts = {}
    /\ IsArray(usedPool) /\ usedPool.len > 0

\* C12 (as claimed): a connection handed back by a failing pool.open is
\* closed exactly once, the close has completed when the failure reaches
\* getConnection(), and no query is issued on that connection.
C12_FailedOpenClosedOnceNoProbe ==
  \A i \in Callers :
    calls[i].openOut = "error" =>
      /\ calls[i].closeCalls <= 1
      /\ ~calls[i].queryPending
      /\ (calls[i].stage = "awaitDirect" /\ calls[i].closeCalls = 1) =>
           calls[i].closePending = {}

\* The step that runs a restart's continuation (lines 87-91).
RunsRestartContinuation ==
  mq # <<>> /\ Head(mq).kind = "restartThen" /\ mq' = Tail(mq)

C14_DrainAttemptsEveryIdle == drainAll

\* C15 (as claimed): between readiness entering Initializing and leaving it,
\* closePoolConnections() runs at most once.
C15_OneDrainPerCycle == cycleDrains <= 1

\* C16: the direct provider's open is called only in the step that resumes
\* getConnection() from a failed pool attempt, after the restart decision of
\* that step; when the decision triggers restart(), isInitializing is true
\* when the direct open is called, so that a getConnection() started then
\* is gated away from pool.open.
C16_DirectAfterDecision ==
  [][\A i \in Callers :
       /\ CallsDirectOpen(i) =>
            (Resumes(i) /\ calls[i].poolP \in PoolPathErrors)
       /\ (Resumes(i) /\ calls[i].poolP \in PoolPathErrors) => CallsDirectOpen(i)
       /\ (CallsDirectOpen(i) /\ CallsRestart(i)) =>
            /\ isInitializing'
            /\ PendingRestarts' # {}
            /\ GateCheck(isInitializing', isAvailable') = "gateInitializing"]_vars

\* A caller's restart is in progress and its direct open outstanding, the
\* pool being marked available, while another caller, started since, was
\* gated as Initializing.
C16_Witness ==
  \E i, j \in Callers :
    /\ calls[i].stage = "awaitDirect" /\ calls[i].directPending
    /\ calls[i].restarts = 1
    /\ isInitializing /\ isAvailable
    /\ calls[j].poolP = "gateInitializing" /\ ~calls[j].openPending

\* C17: every run of initializePool(), at construction and in each restart
\* continuation, ends with isInitializing false and with isAvailable true
\* exactly when pool.init returned true; the primitive is constructed once.
C17_InitializePoolSettles ==
  /\ [](isAvailable <=> poolResult)
  /\ [](poolCreated <= 1 /\ (pool => poolCreated = 1))
  /\ [][RunsRestartContinuation =>
          /\ ~isInitializing'
          /\ isAvailable' <=> poolResult'
          /\ poolCreated' = poolCreated]_vars

\* A restart's initializePool() has run and failed: readiness is Unavailable,
\* not Initializing, the idle set is still the null the restart assigned, and
\* the primitive is the one the constructor made.
C17_Witness ==
  /\ ~isInitializing /\ ~isAvailable /\ ~poolResult
  /\ availablePool = NullVal
  /\ pool /\ poolCreated = 1

\* C18 (as claimed): getConnection() never resolves with a pool connection
\* on which the core has called close.
C18_NeverReturnsClosedConn ==
  \A i \in Callers :
    (calls[i].poolP = "resolved" \/ calls[i].result = "poolConn") =>
      calls[i].closeCalls = 0

\* C19 (as claimed): while any restart() has been invoked and its
\* continuation has not yet reinitialised the pool, no getConnection() calls
\* pool.open.
C19_WindowClosedDuringRestart ==
  [][\A i \in DOMAIN calls : CallsPoolOpen(i) => PendingRestarts = {}]_vars

\* C20 (as claimed): a getConnection() gated because isInitializing was true
\* does not call restart() when, by the time it takes its restart decision,
\* the restart in progress has completed and left the pool Available.
C20_GatedCallNeverRestarts ==
  [][\A i \in Callers :
       (/\ Resumes(i)
        /\ calls[i].poolP = "gateInitializing"
        /\ isAvailable /\ ~isInitializing) =>
         ~CallsRestart(i)]_vars

====
